---- MODULE Spec2Model ----
(***************************************************************************)
(* Model of the Virtual Food Photographer: the App component (menu, style, *)
(* session of generated images, batch generation), the ImageEditorModal    *)
(* component (edit prompt, edit call, edit history) and the two service    *)
(* functions generateFoodImage / editFoodImage.                            *)
(*                                                                         *)
(* Strings are sequences of atoms.  The delimiters the code splits or      *)
(* trims on (newline, space, ",", ";", ":") are atoms of their own; every  *)
(* other atom is an opaque run of characters without delimiters.           *)
(* A value of type T | null is a sequence of length 0 (null) or 1.         *)
(***************************************************************************)
EXTENDS Integers, Sequences, FiniteSets, TLC

\* ---------------------------------------------------------------- bounds
MaxIds == 2
MaxEdits == 2
MaxPayloadLen == 2

\* ---------------------------------------------------------------- strings
Whitespace == {" ", "\n"}

None == <<>>
Some(v) == <<v>>

RECURSIVE SeqsUpTo(_, _)
SeqsUpTo(S, n) ==
  IF n = 0 THEN {<<>>}
  ELSE LET shorter == SeqsUpTo(S, n - 1)
       IN  shorter \cup {Append(s, c) : s \in {t \in shorter : Len(t) = n - 1}, c \in S}

\* String.prototype.trim
RECURSIVE TrimStart(_)
TrimStart(s) ==
  IF s # <<>> /\ Head(s) \in Whitespace THEN TrimStart(Tail(s)) ELSE s

RECURSIVE TrimEnd(_)
TrimEnd(s) ==
  IF s # <<>> /\ s[Len(s)] \in Whitespace THEN TrimEnd(SubSeq(s, 1, Len(s) - 1)) ELSE s

Trim(s) == TrimEnd(TrimStart(s))

\* String.prototype.split(sep) for a one-character separator
RECURSIVE Split(_, _)
Split(s, sep) ==
  IF \A i \in 1..Len(s) : s[i] # sep THEN <<s>>
  ELSE LET i == CHOOSE k \in 1..Len(s) : s[k] = sep /\ \A j \in 1..(k - 1) : s[j] # sep
       IN  <<SubSeq(s, 1, i - 1)>> \o Split(SubSeq(s, i + 1, Len(s)), sep)

\* parts[k] of a JavaScript array (0-based k); an absent element is undefined,
\* which the only reader (the falsiness test before the edit call) cannot
\* tell from the empty string
At(parts, k) == IF k + 1 <= Len(parts) THEN parts[k + 1] ELSE <<>>

\* ---------------------------------------------------------------- types.ts
RUSTIC_DARK == "Rustic/Dark"
BRIGHT_MODERN == "Bright/Modern"
SOCIAL_MEDIA == "Social Media (Top-Down)"
ImageStyle == {RUSTIC_DARK, BRIGHT_MODERN, SOCIAL_MEDIA}

GeneratedImage(id, dish, url, prompt, history) ==
  [id |-> id, dishName |-> dish, imageUrl |-> url, originalPrompt |-> prompt,
   editHistory |-> history]

\* ---------------------------------------------------------------- geminiService
\* API_KEY is taken to be set: without it both service functions throw before
\* sending anything, which the callers handle like any other failed call.
JPEG == <<"image/", "jpeg">>
PNG == <<"image/", "png">>
TEXT == <<"text/", "plain">>

\* GenerateRequest changed to leave the aspect ratio at its initial '1:1'
GenerateRequestDefaultRatio(prompt, style) ==
  CASE style = RUSTIC_DARK ->
         [prompt |-> <<"High-end, professional food photography, rustic, dark lighting, moody, close-up, ">> \o prompt,
          aspectRatio |-> "1:1", numberOfImages |-> 1, outputMimeType |-> JPEG]
    [] style = BRIGHT_MODERN ->
         [prompt |-> <<"High-end, professional food photography, bright, modern, clean background, vibrant colors, ">> \o prompt,
          aspectRatio |-> "1:1", numberOfImages |-> 1, outputMimeType |-> JPEG]
    [] style = SOCIAL_MEDIA ->
         [prompt |-> <<"High-end, professional food photography, top-down view, social media ready, bright, clean, well-lit, ">> \o prompt,
          aspectRatio |-> "1:1", numberOfImages |-> 1, outputMimeType |-> JPEG]

\* the request generateFoodImage sends for (prompt, style)
GenerateRequest(prompt, style) ==
  CASE style = RUSTIC_DARK ->
         [prompt |-> <<"High-end, professional food photography, rustic, dark lighting, moody, close-up, ">> \o prompt,
          aspectRatio |-> "4:3", numberOfImages |-> 1, outputMimeType |-> JPEG]
    [] style = BRIGHT_MODERN ->
         [prompt |-> <<"High-end, professional food photography, bright, modern, clean background, vibrant colors, ">> \o prompt,
          aspectRatio |-> "16:9", numberOfImages |-> 1, outputMimeType |-> JPEG]
    [] style = SOCIAL_MEDIA ->
         [prompt |-> <<"High-end, professional food photography, top-down view, social media ready, bright, clean, well-lit, ">> \o prompt,
          aspectRatio |-> "1:1", numberOfImages |-> 1, outputMimeType |-> JPEG]

\* what the image service can answer: a transport/service error, or a
\* response carrying at most numberOfImages = 1 images
GenImageBytes == {<<>>, <<"g1">>, <<"g2">>}
GenResponses ==
  {[error |-> TRUE, generatedImages |-> <<>>]}
    \cup {[error |-> FALSE, generatedImages |-> s] : s \in SeqsUpTo(GenImageBytes, 1)}

\* the outcome of generateFoodImage for a response: the image bytes, or a throw
GenerateOutcome(resp) ==
  IF ~resp.error /\ Len(resp.generatedImages) > 0
  THEN [ok |-> TRUE, data |-> resp.generatedImages[1]]
  ELSE [ok |-> FALSE, data |-> <<>>]

\* what the edit model can answer: an error, or a candidate with parts
Part(mimeType, data) == [mimeType |-> mimeType, data |-> data]
EditResponses ==
  {[error |-> TRUE, parts |-> <<>>]}
    \cup {[error |-> FALSE, parts |-> s] :
            s \in {<<>>,
                   <<Part(TEXT, <<"t">>)>>,
                   <<Part(PNG, <<>>)>>,
                   <<Part(PNG, <<"e1">>)>>,
                   <<Part(PNG, <<"e2">>)>>,
                   <<Part(TEXT, <<"t">>), Part(PNG, <<"e1">>)>>,
                   <<Part(PNG, <<>>), Part(PNG, <<"e2">>)>>,
                   <<Part(PNG, <<"e2">>), Part(PNG, <<"e1">>)>>}}

StartsWithImage(mimeType) == Len(mimeType) > 0 /\ mimeType[1] = "image/"

ServiceErrorText == "service error"
NoEditedImageText == "No edited image returned by the model."

\* EditOutcome changed to take the first part whatever its mime type
EditOutcomeAnyPart(resp) ==
  IF ~resp.error /\ Len(resp.parts) > 0 /\ resp.parts[1].data # <<>>
  THEN [ok |-> TRUE, data |-> resp.parts[1].data, message |-> ""]
  ELSE [ok |-> FALSE, data |-> <<>>,
        message |-> IF resp.error THEN ServiceErrorText ELSE NoEditedImageText]

\* the outcome of editFoodImage for a response: the data of the first part
\* whose mime type starts with image/, or a throw with its message
EditOutcome(resp) ==
  LET images == {k \in 1..Len(resp.parts) : StartsWithImage(resp.parts[k].mimeType)}
  IN  IF resp.error THEN [ok |-> FALSE, data |-> <<>>, message |-> ServiceErrorText]
      ELSE IF images # {}
      THEN LET first == CHOOSE k \in images : \A j \in images : k <= j
           IN  IF resp.parts[first].data # <<>>
               THEN [ok |-> TRUE, data |-> resp.parts[first].data, message |-> ""]
               ELSE [ok |-> FALSE, data |-> <<>>, message |-> NoEditedImageText]
      ELSE [ok |-> FALSE, data |-> <<>>, message |-> NoEditedImageText]

\* `data:${mimeType};base64,${bytes}`
DataUri(mimeType, bytes) == <<"data", ":">> \o mimeType \o <<";", "base64", ",">> \o bytes

\* ExtractBase64 changed to split at the ';' instead of the ','
ExtractBase64AfterSemicolon(url) == At(Split(url, ";"), 1)

\* currentEditedImageUrl.split(',')[1]
ExtractBase64(url) == At(Split(url, ","), 1)

\* ExtractMimeType changed to keep everything before the ';'
ExtractMimeTypeWithScheme(url) == At(Split(url, ";"), 0)

\* currentEditedImageUrl.split(';')[0].split(':')[1]
ExtractMimeType(url) == At(Split(At(Split(url, ";"), 0), ":"), 1)

\* ---------------------------------------------------------------- state
VARIABLES
  menuText,               \* App: the textarea's text
  selectedStyle,          \* App: the selected ImageStyle
  generatedImages,        \* App: the session, a sequence of GeneratedImage
  loading,                \* App: a batch is in flight
  error,                  \* App: string | null
  editingImage,           \* App: GeneratedImage | null; the modal is mounted iff non-null
  editPrompt,             \* ImageEditorModal: the edit textarea's text
  editingInProgress,      \* ImageEditorModal: its boolean editingImage state
  modalError,             \* ImageEditorModal: its error state, string | null
  currentEditedImageUrl,  \* ImageEditorModal: the image URL the next edit starts from
  imagePromises,          \* the per-dish calls of the latest batch, in menu order: the dish,
                          \* the request while it is pending, and the closure's result
  editCall,               \* the pending editFoodImage calls, oldest first, each with what
                          \* handleEdit captured when it was clicked
  nextId,                 \* uuidv4: the next identifier never handed out before
  batchFirstId,           \* the value of nextId when the latest batch started
  uriParts,               \* a media type and a base64 payload handed to the data-URL code
  uri,                    \* the data URL built from them (handleEdit's newImageUrl), or null
  uriDecoded              \* what handleEdit's two split expressions read back from it, or null

appVars == <<menuText, selectedStyle, generatedImages, loading, error, editingImage>>
modalVars == <<editPrompt, editingInProgress, modalError, currentEditedImageUrl>>
callVars == <<imagePromises, editCall, nextId, batchFirstId>>
codecVars == <<uriParts, uri, uriDecoded>>
vars == <<appVars, modalVars, callVars, codecVars>>

\* the menus typed in a run that only generates: blank ones, one, two and
\* three dishes, a repeated dish, blank lines and padded lines
MenuTexts ==
  {<<" ">>,
   <<" ", "\n", " ">>,
   <<"a">>,
   <<" ", "a", " ", "b", " ">>,
   <<"a", "\n", "b">>,
   <<"a", "\n", "a">>,
   <<"\n", " ", "b", " ", "\n", "\n", "a", "\n">>,
   <<"a", "\n", "b", "\n", "c">>}
\* the menu typed in a run that also edits
SessionMenus == {<<"a", "\n", "b">>}
\* a menu naming one dish on two lines, typed in a run that also edits
RepeatMenus == {<<"a", "\n", "a">>}
EditPrompts == {<<" ">>, <<"brighter">>}

\* ---------------------------------------------------------------- App.tsx
EnterMenuMessage == <<"Please enter your menu items.">>
GenerateFailedMessage(dish) ==
  <<"Failed to generate image for \"">> \o dish \o <<"\". Please try again.">>

\* IsEmptyInput changed to test the text without trimming it
IsEmptyInputUntrimmed(text) == text = <<>>

\* !menuText.trim()
IsEmptyInput(text) == Trim(text) = <<>>

\* menuText.split('\n').map((line) => line.trim()).filter(Boolean)
Dishes(text) ==
  LET lines == Split(text, "\n")
      trimmed == [k \in 1..Len(lines) |-> Trim(lines[k])]
  IN  SelectSeq(trimmed, LAMBDA line : line # <<>>)

\* DishResult changed to derive the id from the dish name instead of uuidv4()
DishResultIdFromDish(dish, outcome, id) ==
  IF outcome.ok
  THEN Some(GeneratedImage(Len(dish), dish, DataUri(JPEG, outcome.data), dish, <<>>))
  ELSE None

\* what one dish's async closure returns once generateFoodImage has settled
DishResult(dish, outcome, id) ==
  IF outcome.ok
  THEN Some(GeneratedImage(id, dish, DataUri(JPEG, outcome.data), dish, <<>>))
  ELSE None

\* CollectResults changed to push each result as its call resolves
CollectInResolutionOrder(promises) ==
  LET done == {k \in 1..Len(promises) : promises[k].result # None}
      idOf(k) == promises[k].result[1].id
      nth(n) == CHOOSE k \in done : Cardinality({j \in done : idOf(j) < idOf(k)}) = n - 1
  IN  [n \in 1..Cardinality(done) |-> promises[nth(n)].result[1]]

\* CollectResults changed to give up the whole batch when one call failed
CollectAllOrNothing(promises) ==
  IF \E k \in 1..Len(promises) : promises[k].result = None THEN <<>>
  ELSE [k \in 1..Len(promises) |-> promises[k].result[1]]

\* results.forEach((result) => { if (result) newImages.push(result) })
RECURSIVE CollectResults(_)
CollectResults(promises) ==
  IF promises = <<>> THEN <<>>
  ELSE Head(promises).result \o CollectResults(Tail(promises))

\* ReplaceById changed to match entries on their dish name
ReplaceByDishName(images, updatedImage) ==
  [k \in 1..Len(images) |->
     IF images[k].dishName = updatedImage.dishName THEN updatedImage ELSE images[k]]

\* prevImages.map((img) => (img.id === updatedImage.id ? updatedImage : img))
ReplaceById(images, updatedImage) ==
  [k \in 1..Len(images) |->
     IF images[k].id = updatedImage.id THEN updatedImage ELSE images[k]]

ModalClosed == editingImage = None

\* disabled={loading} on the menu textarea, the style radios and the generate button
GenerateControlsDisabled == loading

\* The modal's controls without their disabled attribute
EditControlsNeverDisabled == FALSE

\* disabled={editingImage} on the modal's textarea, Close and Apply Edit buttons
EditControlsDisabled == editingInProgress

InitApp ==
  /\ menuText = <<>>
  /\ selectedStyle = BRIGHT_MODERN
  /\ generatedImages = <<>>
  /\ loading = FALSE
  /\ error = None
  /\ editingImage = None
  /\ editPrompt = <<>>
  /\ editingInProgress = FALSE
  /\ modalError = None
  /\ currentEditedImageUrl = <<>>
  /\ imagePromises = <<>>
  /\ editCall = None
  /\ nextId = 1
  /\ batchFirstId = 1

Init ==
  /\ InitApp
  /\ uriParts = [mimeType |-> JPEG, data |-> <<>>]
  /\ uri = None
  /\ uriDecoded = None

\* the menu textarea's onChange (disabled while loading)
SetMenuText(texts) ==
  /\ ~GenerateControlsDisabled
  /\ \E text \in texts : menuText' = text
  /\ UNCHANGED <<codecVars, selectedStyle, generatedImages, loading, error, editingImage,
                 modalVars, callVars>>

\* a style radio's onChange (disabled while loading)
SetSelectedStyle ==
  /\ ~GenerateControlsDisabled
  /\ \E style \in ImageStyle : selectedStyle' = style
  /\ UNCHANGED <<codecVars, menuText, generatedImages, loading, error, editingImage,
                 modalVars, callVars>>

\* the generate button's onClick (disabled while loading): the synchronous
\* part of handleGenerateImages, up to await Promise.all
HandleGenerateImages ==
  /\ ~GenerateControlsDisabled
  /\ IF IsEmptyInput(menuText)
     THEN /\ error' = Some(EnterMenuMessage)
          /\ UNCHANGED <<generatedImages, loading, imagePromises, batchFirstId>>
     ELSE /\ loading' = TRUE
          /\ error' = None
          /\ generatedImages' = <<>>
          /\ imagePromises' =
               LET dishes == Dishes(menuText)
               IN  [k \in 1..Len(dishes) |->
                      [dish |-> dishes[k],
                       request |-> Some(GenerateRequest(dishes[k], selectedStyle)),
                       settled |-> FALSE,
                       result |-> None]]
          /\ batchFirstId' = nextId
  /\ UNCHANGED <<codecVars, menuText, selectedStyle, editingImage, modalVars, editCall, nextId>>

\* the image service answers the k-th dish's call: the rest of that dish's
\* closure runs, and when it was the last call to settle, the code after
\* await Promise.all runs in the same turn
GenerateSettlesWith(k, resp) ==
    LET outcome == GenerateOutcome(resp)
        promise == imagePromises[k]
        settled == [imagePromises EXCEPT
                      ![k] = [promise EXCEPT
                                !.request = None,
                                !.settled = TRUE,
                                !.result = DishResult(promise.dish, outcome, nextId)]]
    IN  /\ loading
        /\ ~promise.settled
        /\ outcome.ok => nextId <= MaxIds
        /\ imagePromises' = settled
        /\ nextId' = IF outcome.ok THEN nextId + 1 ELSE nextId
        /\ error' = IF outcome.ok THEN error
                    ELSE Some(GenerateFailedMessage(promise.dish))
        /\ IF \A j \in 1..Len(settled) : settled[j].settled
           THEN /\ generatedImages' = CollectResults(settled)
                /\ loading' = FALSE
           ELSE UNCHANGED <<generatedImages, loading>>
        /\ UNCHANGED <<codecVars, menuText, selectedStyle, editingImage, modalVars, editCall,
                       batchFirstId>>

GenerateSettles ==
  \E k \in 1..Len(imagePromises), resp \in GenResponses : GenerateSettlesWith(k, resp)

\* an image card's Edit Photo button: handleEditImage(image).  The modal
\* keeps its own state while it stays mounted; it mounts when editingImage
\* was null
HandleEditImage ==
  \E k \in 1..Len(generatedImages) :
    LET image == generatedImages[k]
    IN  /\ editingImage' = Some(image)
        /\ IF ModalClosed
           THEN /\ editPrompt' = <<>>
                /\ editingInProgress' = FALSE
                /\ modalError' = None
                /\ currentEditedImageUrl' = image.imageUrl
           ELSE UNCHANGED modalVars
        /\ UNCHANGED <<codecVars, menuText, selectedStyle, generatedImages, loading, error,
                       callVars>>

\* the modal's Close button (disabled while an edit is in progress)
CloseEditorModal ==
  /\ ~ModalClosed
  /\ ~EditControlsDisabled
  /\ editingImage' = None
  /\ editPrompt' = <<>>
  /\ editingInProgress' = FALSE
  /\ modalError' = None
  /\ currentEditedImageUrl' = <<>>
  /\ UNCHANGED <<codecVars, menuText, selectedStyle, generatedImages, loading, error, callVars>>

\* HandleImageEdited changed to add the updated image when no entry has its id
HandleImageEditedOrAdded(images, updatedImage) ==
  IF \E k \in 1..Len(images) : images[k].id = updatedImage.id
  THEN ReplaceById(images, updatedImage)
  ELSE Append(images, updatedImage)

\* handleImageEdited(updatedImage): the session after the replacement
HandleImageEdited(images, updatedImage) == ReplaceById(images, updatedImage)

\* ---------------------------------------------------------------- ImageEditorModal.tsx
EnterPromptMessage == <<"Please enter an edit prompt.">>
NoImageDataMessage == <<"Failed to edit image: ", "Could not extract image data for editing.">>
EditFailedMessage(reason) == <<"Failed to edit image: ", "Failed to edit image: ", reason>>

\* IsEmptyPrompt changed to test the prompt without trimming it
IsEmptyPromptUntrimmed(prompt) == prompt = <<>>

\* !editPrompt.trim()
IsEmptyPrompt(prompt) == Trim(prompt) = <<>>

\* UpdatedImage changed to keep only the newest history entry
UpdatedImageLastEditOnly(image, prompt, newImageUrl) ==
  [image EXCEPT
     !.imageUrl = newImageUrl,
     !.editHistory = <<[prompt |-> prompt, imageUrl |-> newImageUrl]>>]

\* UpdatedImage changed to put the new history entry first
UpdatedImageNewestFirst(image, prompt, newImageUrl) ==
  [image EXCEPT
     !.imageUrl = newImageUrl,
     !.editHistory = <<[prompt |-> prompt, imageUrl |-> newImageUrl]>> \o image.editHistory]

\* UpdatedImage changed to extend the history without updating imageUrl
UpdatedImageStaleUrl(image, prompt, newImageUrl) ==
  [image EXCEPT
     !.editHistory = Append(image.editHistory, [prompt |-> prompt, imageUrl |-> newImageUrl])]

\* { ...image, imageUrl: newImageUrl, editHistory: [...image.editHistory, {prompt, imageUrl}] }
UpdatedImage(image, prompt, newImageUrl) ==
  [image EXCEPT
     !.imageUrl = newImageUrl,
     !.editHistory = Append(image.editHistory, [prompt |-> prompt, imageUrl |-> newImageUrl])]

\* the edit textarea's onChange (disabled while an edit is in progress)
SetEditPrompt ==
  /\ ~ModalClosed
  /\ ~EditControlsDisabled
  /\ \E prompt \in EditPrompts : editPrompt' = prompt
  /\ UNCHANGED <<codecVars, appVars, editingInProgress, modalError, currentEditedImageUrl, callVars>>

\* the Apply Edit button's onClick (disabled while an edit is in progress):
\* the synchronous part of handleEdit, up to await editFoodImage
HandleEdit ==
  /\ ~ModalClosed
  /\ ~EditControlsDisabled
  /\ IF IsEmptyPrompt(editPrompt)
     THEN /\ modalError' = Some(EnterPromptMessage)
          /\ UNCHANGED <<editingInProgress, editCall>>
     ELSE LET base64Data == ExtractBase64(currentEditedImageUrl)
              mimeType == ExtractMimeType(currentEditedImageUrl)
          IN  IF base64Data = <<>> \/ mimeType = <<>>
              THEN \* the throw is caught in the same turn; finally clears the flag
                   /\ modalError' = Some(NoImageDataMessage)
                   /\ UNCHANGED <<editingInProgress, editCall>>
              ELSE /\ Len(editingImage[1].editHistory) < MaxEdits
                   /\ editingInProgress' = TRUE
                   /\ modalError' = None
                   /\ editCall' = Append(editCall, [image |-> editingImage[1],
                                                    base64ImageData |-> base64Data,
                                                    mimeType |-> mimeType,
                                                    editPrompt |-> editPrompt])
  /\ UNCHANGED <<codecVars, appVars, editPrompt, currentEditedImageUrl, imagePromises, nextId,
                 batchFirstId>>

\* the edit model answers the pending call: the rest of handleEdit runs,
\* with the image, prompt and mime type it captured when it was clicked
\* EditingFlagAfter changed to clear the flag on the success path only
EditingFlagAfterSuccessOnly(outcome) == ~outcome.ok

\* finally { setEditingImage(false) }: the in-progress flag after the call
\* has settled, however it settled
EditingFlagAfter(outcome) == FALSE

EditSettlesWith(resp) ==
    LET call == editCall[1]
        outcome == EditOutcome(resp)
        newImageUrl == DataUri(call.mimeType, outcome.data)
        updatedImage == UpdatedImage(call.image, call.editPrompt, newImageUrl)
    IN  /\ editCall # <<>>
        /\ editCall' = Tail(editCall)
        /\ editingInProgress' = EditingFlagAfter(outcome)
        /\ IF outcome.ok
           THEN /\ generatedImages' = HandleImageEdited(generatedImages, updatedImage)
                /\ editingImage' = Some(updatedImage)
                /\ currentEditedImageUrl' = newImageUrl
                /\ editPrompt' = <<>>
                /\ UNCHANGED modalError
           ELSE /\ modalError' = Some(EditFailedMessage(outcome.message))
                /\ UNCHANGED <<generatedImages, editingImage, currentEditedImageUrl,
                               editPrompt>>
        /\ UNCHANGED <<codecVars, menuText, selectedStyle, loading, error, imagePromises, nextId,
                       batchFirstId>>

EditSettles == \E resp \in EditResponses : EditSettlesWith(resp)

Next ==
  \/ SetMenuText(SessionMenus)
  \/ SetSelectedStyle
  \/ HandleGenerateImages
  \/ GenerateSettles
  \/ HandleEditImage
  \/ CloseEditorModal
  \/ SetEditPrompt
  \/ HandleEdit
  \/ EditSettles

Spec == Init /\ [][Next]_vars

\* runs that only generate: every menu of MenuTexts, no editor
NextBatch ==
  \/ SetMenuText(MenuTexts)
  \/ SetSelectedStyle
  \/ HandleGenerateImages
  \/ GenerateSettles

SpecBatch == Init /\ [][NextBatch]_vars

\* Spec with every remote call settling eventually: a pending generateFoodImage
\* or editFoodImage promise resolves or rejects.
FairSpec == Spec /\ WF_vars(GenerateSettles) /\ WF_vars(EditSettles)

\* runs that generate and edit with the same dish on two lines of the menu
NextRepeat ==
  \/ SetMenuText(RepeatMenus)
  \/ SetSelectedStyle
  \/ HandleGenerateImages
  \/ GenerateSettles
  \/ HandleEditImage
  \/ CloseEditorModal
  \/ SetEditPrompt
  \/ HandleEdit
  \/ EditSettles

SpecRepeat == Init /\ [][NextRepeat]_vars

\* The data-URL code on its own: media types with and without parameters and
\* base64 payloads go through the template literal and the two split
\* expressions of handleEdit.
BaseTypes == {<<"image/", "jpeg">>, <<"image/", "png">>, <<"image/", "webp">>, <<"text/", "plain">>}
TypeParameters ==
  {<<>>,
   <<";", "charset=utf-8">>,
   <<";", "name=a", ":", "b">>,
   <<";", "name=a", ",", "b">>}
MediaTypes == {t \o ps : t \in BaseTypes, ps \in TypeParameters}
Base64Payloads == SeqsUpTo({"A", "B"}, MaxPayloadLen)

InitCodec ==
  /\ InitApp
  /\ uriParts \in [mimeType : MediaTypes, data : Base64Payloads]
  /\ uri = None
  /\ uriDecoded = None

\* `data:${mimeType};base64,${editedBase64}`
BuildDataUri ==
  /\ uri = None
  /\ uri' = Some(DataUri(uriParts.mimeType, uriParts.data))
  /\ UNCHANGED <<appVars, modalVars, callVars, uriParts, uriDecoded>>

\* split(',')[1] and split(';')[0].split(':')[1]
DecodeDataUri ==
  /\ uri # None
  /\ uriDecoded = None
  /\ uriDecoded' = Some([mimeType |-> ExtractMimeType(uri[1]), data |-> ExtractBase64(uri[1])])
  /\ UNCHANGED <<appVars, modalVars, callVars, uriParts, uri>>

NextCodec ==
  \/ BuildDataUri
  \/ DecodeDataUri

SpecCodec == InitCodec /\ [][NextCodec]_vars

\* ---------------------------------------------------------------- properties
\* The menu as the claims speak of it, read off the text position by position:
\* a line runs from a line start to the next newline; a dish is a line that has
\* a character other than white space, cut at its first and last such character.
LineStarts(text) == {i \in 1..(Len(text) + 1) : i = 1 \/ text[i - 1] = "\n"}
LineEnd(text, i) ==
  CHOOSE j \in i..(Len(text) + 1) :
    /\ j = Len(text) + 1 \/ text[j] = "\n"
    /\ \A m \in i..(j - 1) : text[m] # "\n"
Inked(text, i) == {m \in i..(LineEnd(text, i) - 1) : text[m] # " "}
DishStarts(text) == {i \in LineStarts(text) : Inked(text, i) # {}}
DishAt(text, i) ==
  LET ink == Inked(text, i)
      lo == CHOOSE m \in ink : \A n \in ink : m <= n
      hi == CHOOSE m \in ink : \A n \in ink : n <= m
  IN  SubSeq(text, lo, hi)
MenuDishes(text) ==
  LET starts == DishStarts(text)
      nth(n) == CHOOSE i \in starts : Cardinality({j \in starts : j < i}) = n - 1
  IN  [n \in 1..Cardinality(starts) |-> DishAt(text, nth(n))]
AllWhitespace(text) == \A i \in 1..Len(text) : text[i] \in {" ", "\n"}

Succeeded(promises) == {k \in 1..Len(promises) : promises[k].settled /\ promises[k].result # None}
Failed(promises) == {k \in 1..Len(promises) : promises[k].settled /\ promises[k].result = None}
BatchSettled == ~loading /\ imagePromises # <<>>

\* C1: while a batch is in flight its calls stand in the order of the menu's
\* dishes, and once it has settled the session lists exactly the images of the
\* calls that succeeded, in the order of their calls, whatever the order in
\* which the calls resolved.
OrderPreserved ==
  /\ loading =>
       /\ Len(imagePromises) = Len(MenuDishes(menuText))
       /\ \A k \in 1..Len(imagePromises) : imagePromises[k].dish = MenuDishes(menuText)[k]
  /\ BatchSettled =>
       LET ok == Succeeded(imagePromises)
           callOf(n) == {k \in ok : imagePromises[k].result[1].id = generatedImages[n].id}
       IN  /\ Len(generatedImages) = Cardinality(ok)
           /\ \A n \in 1..Len(generatedImages) :
                /\ callOf(n) # {}
                /\ \A k \in callOf(n) : generatedImages[n].dishName = imagePromises[k].dish
           /\ \A m, n \in 1..Len(generatedImages) :
                m < n => \A a \in callOf(m), b \in callOf(n) : a < b

\* C1 witness: of three dishes the middle one failed and the last one resolved
\* before the first; the session lists the first, then the last.
OrderPreservedWitness ==
  /\ BatchSettled
  /\ Len(imagePromises) = 3
  /\ imagePromises[2].result = None
  /\ Len(generatedImages) = 2
  /\ generatedImages[1].dishName = <<"a">>
  /\ generatedImages[2].dishName = <<"c">>
  /\ generatedImages[2].id < generatedImages[1].id

\* C2: the step that settles a batch installs a session with exactly one
\* tracked image per call that succeeded, labelled and prompted with that
\* call's dish and with no edit history, and nothing for a call that failed;
\* while the batch is in flight a step settles at most one call and changes no
\* call that has settled already, whether it succeeded or failed.
FailureIsolated ==
  [][
      /\ loading /\ ~loading' =>
          LET ok == Succeeded(imagePromises')
          IN  /\ Len(generatedImages') = Cardinality(ok)
              /\ \A k \in ok :
                   LET image == imagePromises'[k].result[1]
                       entries == {n \in 1..Len(generatedImages') :
                                     generatedImages'[n].id = image.id}
                   IN  /\ Cardinality(entries) = 1
                       /\ \A n \in entries :
                            /\ generatedImages'[n].dishName = imagePromises'[k].dish
                            /\ generatedImages'[n].originalPrompt = imagePromises'[k].dish
                            /\ generatedImages'[n].editHistory = <<>>
      /\ loading =>
          /\ Len(imagePromises') = Len(imagePromises)
          /\ \A k \in 1..Len(imagePromises) :
               imagePromises[k].settled => imagePromises'[k] = imagePromises[k]
          /\ Cardinality({k \in 1..Len(imagePromises) :
                            imagePromises'[k] # imagePromises[k]}) <= 1
    ]_vars

\* C2 witness: a settled batch in which the first dish failed and a later dish
\* succeeded; the session holds that dish's image.
FailureIsolatedWitness ==
  /\ BatchSettled
  /\ Len(imagePromises) = 3
  /\ Failed(imagePromises) = {1, 3}
  /\ Len(generatedImages) = 1
  /\ generatedImages[1].dishName = <<"b">>

\* C3: the step that settles a batch leaves one reported error message per
\* failed dish, each naming its dish.
PerDishErrorsReported ==
  [][loading /\ ~loading' =>
       LET failed == Failed(imagePromises')
       IN  /\ Len(error') = Cardinality(failed)
           /\ \A k \in failed :
                \E m \in 1..Len(error') :
                  error'[m] = GenerateFailedMessage(imagePromises'[k].dish)]_vars

\* C4: a generate action on a menu that is all white space reports the
\* enter-your-menu error, leaves every call record and the session as they
\* were and does not start loading.
EmptyInputRejected ==
  [][HandleGenerateImages /\ AllWhitespace(menuText) =>
       /\ error' = Some(<<"Please enter your menu items.">>)
       /\ imagePromises' = imagePromises
       /\ \A k \in 1..Len(imagePromises') : imagePromises'[k].settled
       /\ generatedImages' = generatedImages
       /\ ~loading']_vars

\* C4 witness: the error is shown for a menu of white space while the session
\* still holds the images of the batch before.
EmptyInputRejectedWitness ==
  /\ error = Some(EnterMenuMessage)
  /\ menuText = <<" ", "\n", " ">>
  /\ Len(generatedImages) = 2
  /\ ~loading

PrefixOf(style) ==
  CASE style = "Rustic/Dark" ->
         "High-end, professional food photography, rustic, dark lighting, moody, close-up, "
    [] style = "Bright/Modern" ->
         "High-end, professional food photography, bright, modern, clean background, vibrant colors, "
    [] style = "Social Media (Top-Down)" ->
         "High-end, professional food photography, top-down view, social media ready, bright, clean, well-lit, "
AspectOf(style) ==
  CASE style = "Rustic/Dark" -> "4:3"
    [] style = "Bright/Modern" -> "16:9"
    [] style = "Social Media (Top-Down)" -> "1:1"

\* C5: a generate action on a menu with dishes issues one call per dish of the
\* menu, in order, duplicates included, each carrying the selected style's
\* prefix followed by the dish and that style's aspect ratio; during the batch
\* the number of calls stays the number of dishes and a settled call is never
\* pending again.
OneCallPerDish ==
  [][loading' =>
       LET dishes == MenuDishes(menuText')
       IN  /\ Len(imagePromises') = Len(dishes)
           /\ ~loading =>
                \A k \in 1..Len(dishes) :
                  /\ ~imagePromises'[k].settled
                  /\ imagePromises'[k].request # None
                  /\ imagePromises'[k].request[1].prompt = <<PrefixOf(selectedStyle')>> \o dishes[k]
                  /\ imagePromises'[k].request[1].aspectRatio = AspectOf(selectedStyle')
           /\ loading =>
                \A k \in 1..Len(dishes) :
                  imagePromises[k].settled => imagePromises'[k].settled]_vars

\* C5 witness: the same dish on two lines, rustic style: two calls, the first
\* has failed and the second is still pending, with the rustic prompt and 4:3.
OneCallPerDishWitness ==
  /\ loading
  /\ menuText = <<"a", "\n", "a">>
  /\ selectedStyle = RUSTIC_DARK
  /\ Len(imagePromises) = 2
  /\ imagePromises[1].settled /\ imagePromises[1].result = None
  /\ ~imagePromises[2].settled
  /\ imagePromises[2].request[1].aspectRatio = "4:3"

\* C6: no image of the session was created before the latest batch started,
\* and the session is empty while a batch is in flight.
FullyReplaced ==
  /\ \A n \in 1..Len(generatedImages) : generatedImages[n].id >= batchFirstId
  /\ loading => generatedImages = <<>>

\* C6 witness: a later batch has settled and installed its image while an edit
\* of an image of the batch before is still pending.
FullyReplacedWitness ==
  /\ BatchSettled
  /\ generatedImages # <<>>
  /\ editCall # None
  /\ editCall[1].image.id < batchFirstId

\* The edit model's answers as the claims speak of them.
ImagePartsOf(resp) ==
  IF resp.error THEN {}
  ELSE {k \in 1..Len(resp.parts) : resp.parts[k].mimeType[1] = "image/"}
ReturnsImage(resp) ==
  /\ ImagePartsOf(resp) # {}
  /\ \A k \in ImagePartsOf(resp) :
       (\A j \in ImagePartsOf(resp) : k <= j) => resp.parts[k].data # <<>>
ReturnedImage(resp) ==
  resp.parts[CHOOSE k \in ImagePartsOf(resp) : \A j \in ImagePartsOf(resp) : k <= j].data
CommaAt(url) == CHOOSE i \in 1..Len(url) : url[i] = "," /\ \A j \in 1..(i - 1) : url[j] # ","
PayloadOf(url) == SubSeq(url, CommaAt(url) + 1, Len(url))
HeaderOf(url) == SubSeq(url, 1, CommaAt(url))

\* C7: when a pending edit is answered with an image, the image handed to
\* the App has the id, label and original prompt of the image the edit was
\* applied to, carries the returned image as its payload, and its history is
\* that image's history followed by one entry holding the edit prompt and the
\* new payload.
EditAppended ==
  [][\A resp \in EditResponses :
       EditSettlesWith(resp) /\ ReturnsImage(resp) =>
         LET input == editCall[1].image
             output == editingImage'[1]
             n == Len(input.editHistory)
         IN  /\ editingImage' # None
             /\ output.id = input.id
             /\ output.dishName = input.dishName
             /\ output.originalPrompt = input.originalPrompt
             /\ PayloadOf(output.imageUrl) = ReturnedImage(resp)
             /\ HeaderOf(output.imageUrl) = HeaderOf(input.imageUrl)
             /\ Len(output.editHistory) = n + 1
             /\ SubSeq(output.editHistory, 1, n) = input.editHistory
             /\ output.editHistory[n + 1] =
                  [prompt |-> editCall[1].editPrompt, imageUrl |-> output.imageUrl]]_vars

\* C7 witness: two successive edits of one image, answered with e1 and then
\* e2: the history holds both entries in that order and the payload is e2.
EditAppendedWitness ==
  /\ editingImage # None
  /\ Len(editingImage[1].editHistory) = 2
  /\ PayloadOf(editingImage[1].editHistory[1].imageUrl) = <<"e1">>
  /\ PayloadOf(editingImage[1].editHistory[2].imageUrl) = <<"e2">>
  /\ editingImage[1].editHistory[2].prompt = <<"brighter">>
  /\ PayloadOf(editingImage[1].imageUrl) = <<"e2">>

\* C8: while an edit is pending the session's entry for the edited image is the
\* image the edit started from; when the edit is answered with an error or
\* without an image part, the step shows an error in the editor, clears its
\* in-progress flag and changes neither the session, the image being edited
\* nor the editor's current image URL.
EditFailureLeavesState ==
  [][
      /\ editCall' # None =>
           \A n \in 1..Len(generatedImages') :
             generatedImages'[n].id = editCall'[1].image.id
               => generatedImages'[n] = editCall'[1].image
      /\ \A resp \in EditResponses :
           EditSettlesWith(resp) /\ ImagePartsOf(resp) = {} =>
             /\ modalError' # None
             /\ ~editingInProgress'
             /\ editCall' = None
             /\ generatedImages' = generatedImages
             /\ editingImage' = editingImage
             /\ currentEditedImageUrl' = currentEditedImageUrl
    ]_vars

\* C8 witness: an edit has failed after an earlier edit of the same image
\* succeeded; the one history entry and the payload are still there.
EditFailureLeavesStateWitness ==
  /\ modalError = Some(EditFailedMessage("No edited image returned by the model."))
  /\ editingImage # None
  /\ Len(editingImage[1].editHistory) = 1
  /\ currentEditedImageUrl = editingImage[1].imageUrl
  /\ \E n \in 1..Len(generatedImages) : generatedImages[n] = editingImage[1]

\* C9: every image of the session without edit history carries the payload its
\* generation call returned, and every image with edit history carries the
\* payload of its last history entry.
PayloadMatchesHistory ==
  \A n \in 1..Len(generatedImages) :
    LET image == generatedImages[n]
    IN  IF image.editHistory = <<>>
        THEN \E k \in Succeeded(imagePromises) :
               /\ imagePromises[k].result[1].id = image.id
               /\ imagePromises[k].result[1].imageUrl = image.imageUrl
        ELSE image.imageUrl = image.editHistory[Len(image.editHistory)].imageUrl

\* C9 witness: a session with an unedited image and an image edited twice
\* with different results.
PayloadMatchesHistoryWitness ==
  /\ Len(generatedImages) = 2
  /\ generatedImages[1].editHistory = <<>>
  /\ Len(generatedImages[2].editHistory) = 2
  /\ generatedImages[2].editHistory[1].imageUrl # generatedImages[2].editHistory[2].imageUrl

\* C10: the editor's current image URL is the imageUrl of the image it is
\* editing, and the payload and media type of a pending edit call are those
\* of the current payload of the image that will receive the result.
EditsStartFromCurrent ==
  /\ editingImage # None => currentEditedImageUrl = editingImage[1].imageUrl
  /\ editCall # None =>
       /\ PayloadOf(editCall[1].image.imageUrl) = editCall[1].base64ImageData
       /\ HeaderOf(editCall[1].image.imageUrl) =
            <<"data", ":">> \o editCall[1].mimeType \o <<";", "base64", ",">>

\* The session's entries with a given id.
EntriesWithId(images, id) == {n \in 1..Len(images) : images[n].id = id}
IdsOf(images) == {images[n].id : n \in 1..Len(images)}
BatchStarts == ~loading /\ loading'

\* C11 as stated: every step in which a pending edit is answered with an
\* image replaces exactly one entry of the session, the one with the edited
\* image's id, and keeps the length, the order and every other entry; an
\* entry leaves the session only in the step that starts a batch.
ExactlyOneReplaced ==
  [][
      /\ \A resp \in EditResponses :
           EditSettlesWith(resp) /\ ReturnsImage(resp) =>
             /\ Len(generatedImages') = Len(generatedImages)
             /\ \E n \in 1..Len(generatedImages) :
                  /\ generatedImages[n].id = editCall[1].image.id
                  /\ generatedImages'[n] # generatedImages[n]
                  /\ generatedImages'[n].id = generatedImages[n].id
                  /\ \A k \in 1..Len(generatedImages) :
                       k # n => generatedImages'[k] = generatedImages[k]
      /\ IdsOf(generatedImages) \ IdsOf(generatedImages') # {} => BatchStarts
    ]_vars

\* C11 amended: a step in which a pending edit is answered with an image
\* replaces the session's entry with the edited image's id when the session
\* has one, and then exactly that one, and changes nothing in the session when
\* it has none (the image belonged to a batch that was replaced meanwhile);
\* length, order and every other entry are kept, and an entry leaves the
\* session only in the step that starts a batch.
AtMostOneReplaced ==
  [][
      /\ \A resp \in EditResponses :
           EditSettlesWith(resp) /\ ReturnsImage(resp) =>
             LET hit == EntriesWithId(generatedImages, editCall[1].image.id)
             IN  /\ Len(generatedImages') = Len(generatedImages)
                 /\ Cardinality(hit) <= 1
                 /\ \A n \in 1..Len(generatedImages) :
                      IF n \in hit
                      THEN /\ generatedImages'[n] # generatedImages[n]
                           /\ generatedImages'[n].id = generatedImages[n].id
                           /\ generatedImages'[n].dishName = generatedImages[n].dishName
                      ELSE generatedImages'[n] = generatedImages[n]
      /\ IdsOf(generatedImages) \ IdsOf(generatedImages') # {} => BatchStarts
    ]_vars

\* C11 witness: a session of two images of which the second has been edited
\* once and the first never.
AtMostOneReplacedWitness ==
  /\ Len(generatedImages) = 2
  /\ generatedImages[1].editHistory = <<>>
  /\ Len(generatedImages[2].editHistory) = 1
  /\ generatedImages[1].id # generatedImages[2].id

\* C12: while a batch is in flight nothing of it can be observed: the session
\* holds no image and the reported error holds no failure message, whatever
\* calls of the batch have settled so far.
NoPartialCompletion ==
  loading => /\ generatedImages = <<>>
             /\ error = None

\* C13: applying an edit whose prompt is empty or all whitespace shows the
\* empty-prompt error, starts no call of the edit model and never raises the
\* in-progress flag, and leaves the image being edited, its history, the
\* editor's current image URL and the session as they were.
EmptyPromptRejected ==
  [][HandleEdit /\ AllWhitespace(editPrompt) =>
       /\ modalError' = <<<<"Please enter an edit prompt.">>>>
       /\ editCall' = editCall
       /\ editCall = <<>>
       /\ ~editingInProgress'
       /\ editingImage' = editingImage
       /\ currentEditedImageUrl' = currentEditedImageUrl
       /\ generatedImages' = generatedImages]_vars

\* C13 witness: a prompt of one blank was applied to an image that had been
\* edited once before: the error is shown and no call is pending.
EmptyPromptRejectedWitness ==
  /\ editingImage # None
  /\ Len(editingImage[1].editHistory) = 1
  /\ editPrompt = <<" ">>
  /\ modalError = <<<<"Please enter an edit prompt.">>>>
  /\ editCall = <<>>
  /\ ~editingInProgress

\* A step in which a pending edit of the image with this id is answered with
\* an image.
EditSucceedsFor(id) ==
  \E resp \in EditResponses :
    /\ EditSettlesWith(resp)
    /\ ReturnsImage(resp)
    /\ editCall[1].image.id = id
IsPrefix(s, t) == Len(s) <= Len(t) /\ SubSeq(t, 1, Len(s)) = s

\* C14: for every image that is in the session before and after a step, the
\* history before is a prefix of the history after, and it grows, by exactly
\* one entry, exactly in the steps in which an edit of that image succeeds; an
\* image enters the session with an empty history. So the length of a tracked
\* image's history is the number of successful edits applied to it.
HistoryAppendOnly ==
  [][
      /\ \A n \in 1..Len(generatedImages) :
           \A m \in 1..Len(generatedImages') :
             generatedImages[n].id = generatedImages'[m].id =>
               /\ IsPrefix(generatedImages[n].editHistory, generatedImages'[m].editHistory)
               /\ Len(generatedImages'[m].editHistory) =
                    Len(generatedImages[n].editHistory)
                      + (IF EditSucceedsFor(generatedImages[n].id) THEN 1 ELSE 0)
      /\ \A m \in 1..Len(generatedImages') :
           generatedImages'[m].id \notin IdsOf(generatedImages) =>
             generatedImages'[m].editHistory = <<>>
    ]_vars

\* C14 witness: the session's first image has been edited twice and a further
\* attempt was rejected by the editor; its history holds the two entries.
HistoryAppendOnlyWitness ==
  /\ generatedImages # <<>>
  /\ Len(generatedImages[1].editHistory) = 2
  /\ generatedImages[1].editHistory[1] # generatedImages[1].editHistory[2]
  /\ modalError # None
  /\ ~editingInProgress

\* C15: the images of the session always have pairwise different ids, also
\* when they carry the same dish name, and a step in which an edit succeeds
\* changes no entry whose id is not the edited image's id, whatever its label.
IdsUnique ==
  [][
      /\ \A n \in 1..Len(generatedImages') :
           \A m \in 1..Len(generatedImages') :
             n # m => generatedImages'[n].id # generatedImages'[m].id
      /\ \A resp \in EditResponses :
           EditSettlesWith(resp) /\ ReturnsImage(resp) =>
             \A n \in 1..Len(generatedImages) :
               generatedImages[n].id # editCall[1].image.id =>
                 /\ n <= Len(generatedImages')
                 /\ generatedImages'[n] = generatedImages[n]
    ]_vars

\* C15 witness: two images with the same dish name, the first edited once and
\* the second untouched.
IdsUniqueWitness ==
  /\ Len(generatedImages) = 2
  /\ generatedImages[1].dishName = generatedImages[2].dishName
  /\ Len(generatedImages[1].editHistory) = 1
  /\ generatedImages[2].editHistory = <<>>

\* The media type a data URL names: what stands between "data:" and the
\* first ";".
SemicolonAt(url) == CHOOSE i \in 1..Len(url) : url[i] = ";" /\ \A j \in 1..(i - 1) : url[j] # ";"
MediaTypeOf(url) == SubSeq(url, 3, SemicolonAt(url) - 1)
Decodable(url) ==
  /\ \E i \in 1..Len(url) : url[i] = ","
  /\ \E i \in 1..Len(url) : url[i] = ";"
  /\ MediaTypeOf(url) # <<>>
  /\ PayloadOf(url) # <<>>

\* C16: every image URL of the session, and of the image the editor holds,
\* splits into a non-empty media type and a non-empty base64 body, and the
\* editor never shows 'Could not extract image data for editing.'
PayloadsDecodable ==
  /\ \A n \in 1..Len(generatedImages) : Decodable(generatedImages[n].imageUrl)
  /\ editingImage # <<>> => Decodable(editingImage[1].imageUrl)
  /\ modalError # <<<<"Failed to edit image: ", "Could not extract image data for editing.">>>>

\* The delimiters of a data URL.
HasDelimiter(text) == \E i \in 1..Len(text) : text[i] \in {":", ";", ","}

UrlsOf(image) ==
  {image.imageUrl} \cup {image.editHistory[k].imageUrl : k \in 1..Len(image.editHistory)}

\* C18: every image URL stored in the session, current or in a history, is
\* labelled image/jpeg, whatever media type the edit model's image part had.
FixedMediaType ==
  \A n \in 1..Len(generatedImages) :
    \A url \in UrlsOf(generatedImages[n]) :
      /\ SubSeq(url, 1, 2) = <<"data", ":">>
      /\ MediaTypeOf(url) = <<"image/", "jpeg">>

\* C18 witness: an image of the session was edited twice, each time answered
\* with a PNG part; the two URLs of its history differ and both name image/jpeg.
FixedMediaTypeWitness ==
  /\ generatedImages # <<>>
  /\ Len(generatedImages[1].editHistory) = 2
  /\ Cardinality(UrlsOf(generatedImages[1])) = 2
  /\ PayloadOf(generatedImages[1].imageUrl) \in {<<"e1">>, <<"e2">>}
  /\ {MediaTypeOf(url) : url \in UrlsOf(generatedImages[1])} = {<<"image/", "jpeg">>}

\* C19: when every remote call settles eventually, a batch that has started
\* eventually has all its calls settled with loading false and its results
\* installed, and an edit that has started eventually has its in-progress
\* flag false, whether the calls succeeded or failed.
BusyFlagsReleased ==
  /\ loading ~> (~loading /\ Succeeded(imagePromises) \cup Failed(imagePromises)
                                = 1..Len(imagePromises))
  /\ editingInProgress ~> (~editingInProgress /\ editCall = <<>>)

\* C19 witness: a batch with a failed call has settled and an edit has failed;
\* both flags are false again.
BusyFlagsReleasedWitness ==
  /\ ~loading
  /\ Failed(imagePromises) # {}
  /\ Succeeded(imagePromises) # {}
  /\ ~editingInProgress
  /\ modalError # <<>>
  /\ modalError[1][1] = "Failed to edit image: "
  /\ Len(modalError[1]) = 3

\* The calls of the latest batch that have not settled yet.
Pending(promises) == {k \in 1..Len(promises) : ~promises[k].settled}

\* C20: at most one call of the edit model is pending, and while one is
\* pending the editor is open with its in-progress flag set (so Apply Edit and
\* Close are disabled); calls of a batch are pending only while loading is
\* set (so the generate button is disabled), and while calls of a batch are
\* pending no other batch starts: the pending calls stay the calls of the
\* same dishes until they settle.
NonOverlapping ==
  [][
      /\ Len(editCall') <= 1
      /\ editCall' # <<>> => editingInProgress' /\ editingImage' # <<>>
      /\ Pending(imagePromises') # {} => loading'
      /\ Pending(imagePromises) # {} =>
           /\ Len(imagePromises') = Len(imagePromises)
           /\ Pending(imagePromises') \subseteq Pending(imagePromises)
           /\ \A k \in 1..Len(imagePromises) :
                imagePromises'[k].dish = imagePromises[k].dish
      /\ editCall # <<>> => editCall' \in {editCall, <<>>}
    ]_vars

\* C20 witness: a batch and an edit in flight together: one call of the batch
\* has settled, one is pending, and the only edit call is pending.
NonOverlappingWitness ==
  /\ loading
  /\ Len(imagePromises) = 2
  /\ Cardinality(Pending(imagePromises)) = 1
  /\ Len(editCall) = 1
  /\ editingInProgress

====
